---- MODULE Spec2Model ----
(***************************************************************************)
(* The webpack bundle described by README.md: the module cache behind      *)
(* __webpack_require__, the three shapes an import takes in the generated  *)
(* code, the test file that stubs a function of ./utils, and the entry map *)
(* built by webpack.config.js.                                             *)
(***************************************************************************)
EXTENDS Integers, Sequences, FiniteSets, TLC

VARIABLES
    imports,            \* the bundle: module id -> ids it imports, in order
    failing,            \* the bundle: which module body throws, and where
    installedModules,   \* the module cache
    heap,               \* object reference -> properties of that object
    nextRef,            \* next fresh object reference
    stack,              \* running module functions, innermost last
    bindings,           \* module id -> its __WEBPACK_IMPORTED_MODULE_k__ vars
    raised,             \* exception in flight / signalled to the caller
    execLog,            \* module ids in the order their bodies started
    roots,              \* ids whose load was started by the test file
    handed,             \* module id -> every reference a require(id) returned
    imported,           \* the test file's own imported-module variables
    atImport,           \* value of utils.fetchData when each import ran
    heldDefault,        \* the value the last default import resolved to
    last,               \* what the last operation was and what it yielded
    entryInput,         \* webpack.config.js: the array handed to reduce
    entryRest,          \* webpack.config.js: elements reduce has not visited
    accu,               \* webpack.config.js: the accumulator object
    emitted,            \* webpack.config.js: output file per entry chunk
    built               \* webpack.config.js: whether the build has run

loaderVars == <<imports, failing, installedModules, heap, nextRef, stack,
                bindings, raised, execLog, roots, handed>>
testVars == <<imported, atImport, heldDefault, last>>
configVars == <<entryInput, entryRest, accu, emitted, built>>
vars == <<loaderVars, testVars, configVars>>

----------------------------------------------------------------------------
(* Bounds *)

MaxExtraImports == 1
MaxDepth == 4
MaxRefs == 5
MaxEntries == 3

----------------------------------------------------------------------------
(* The modules of the bundle *)

Utils == 0
App == 1
UtilsDefault == 4
ModuleIds == {Utils, App, UtilsDefault}

\* The test file is the entry module; it is the caller of the top-level
\* requires and is never itself required.
Test == 3
Importers == ModuleIds \cup {Test}

NoRef == 0
Undefined == "undefined"

FetchDataFn == "function fetchData"
DoSomethingFn == "function doSomething"
StubValues == {"stub returns []", "stub returns true"}
EsModuleKey == "__esModule"
DefaultKey == "a"

\* utils.js exports fetchData; app.js exports doSomething; the utils variant
\* used by the default-import test exports fetchData as its default.
ExportList(m) ==
    IF m = Utils THEN <<[name |-> "fetchData", val |-> FetchDataFn]>>
    ELSE IF m = App THEN <<[name |-> "doSomething", val |-> DoSomethingFn]>>
    ELSE <<[name |-> DefaultKey, val |-> FetchDataFn]>>

\* app.js: import { fetchData } from './utils'
BaseImports(m) ==
    IF m = App THEN <<Utils>> ELSE <<>>

Range(s) == {s[k] : k \in DOMAIN s}

InjectiveSeqs(S, n) ==
    {s \in UNION {[1..k -> S] : k \in 0..n} :
        \A a, b \in DOMAIN s : a # b => s[a] # s[b]}

NoFailure == [id |-> -1, at |-> 0]

Failures ==
    {NoFailure} \cup
    UNION {{[id |-> m, at |-> k] : k \in 0..Len(ExportList(m))} : m \in ModuleIds}

\* The module function of m as the statements it executes, in order.
ModuleFunction(m) ==
    LET head == <<[op |-> "esModule", id |-> m, name |-> EsModuleKey, val |-> "true"]>>
        imps == [k \in 1..Len(imports[m]) |->
                    [op |-> "import", id |-> imports[m][k], name |-> "", val |-> ""]]
        exps == [k \in 1..Len(ExportList(m)) |->
                    [op |-> "export", id |-> m, name |-> ExportList(m)[k].name,
                     val |-> ExportList(m)[k].val]]
        body == IF failing.id = m
                THEN SubSeq(exps, 1, failing.at) \o
                     <<[op |-> "throw", id |-> m, name |-> "", val |-> ""]>>
                ELSE exps
    IN  head \o imps \o body

----------------------------------------------------------------------------
(* Objects *)

EmptyObject == [n \in {} |-> Undefined]

SetProp(obj, n, v) ==
    [k \in DOMAIN obj \cup {n} |-> IF k = n THEN v ELSE obj[k]]

GetProp(obj, n) ==
    IF n \in DOMAIN obj THEN obj[n] ELSE Undefined

----------------------------------------------------------------------------
(* __webpack_require__ *)

NoModule == [i |-> -1, l |-> FALSE, exports |-> NoRef]

\* Variant: the cache is never consulted.
InstalledNever(id) ==
    FALSE

\* Variant: only a module whose function has returned counts as cached.
InstalledWhenLoaded(id) ==
    installedModules[id].l

\* if(installedModules[moduleId])
Installed(id) ==
    installedModules[id] # NoModule

\* return installedModules[moduleId].exports;
CachedExports(id) ==
    installedModules[id].exports

Top == stack[Len(stack)]

Running ==
    /\ stack # <<>>
    /\ raised = <<>>

AtStatement(op) ==
    /\ Running
    /\ Top.pc <= Len(ModuleFunction(Top.id))
    /\ ModuleFunction(Top.id)[Top.pc].op = op

Statement == ModuleFunction(Top.id)[Top.pc]

Advance(s) ==
    [s EXCEPT ![Len(s)].pc = @ + 1]

Hand(id, ref) ==
    handed' = [handed EXCEPT ![id] = @ \cup {ref}]

NoteImport(importer, id, ref) ==
    atImport' = IF id = Utils /\ importer \in {App, Test}
                THEN [atImport EXCEPT ![importer] = GetProp(heap[ref], "fetchData")]
                ELSE atImport

\* Create a new module (and put it into the cache), then run its function.
NewModule(id, callers) ==
    /\ nextRef <= MaxRefs
    /\ Len(callers) < MaxDepth
    /\ installedModules' =
           [installedModules EXCEPT ![id] = [i |-> id, l |-> FALSE, exports |-> nextRef]]
    /\ heap' = [r \in DOMAIN heap \cup {nextRef} |->
                   IF r = nextRef THEN EmptyObject ELSE heap[r]]
    /\ nextRef' = nextRef + 1
    /\ stack' = Append(callers, [id |-> id, pc |-> 1])
    /\ bindings' = [bindings EXCEPT ![id] = <<>>]
    /\ execLog' = Append(execLog, id)

Op(op, id, ref, name, val, err) ==
    [op |-> op, id |-> id, ref |-> ref, name |-> name, val |-> val, err |-> err]

Idle ==
    stack = <<>>

\* The test file: var __WEBPACK_IMPORTED_MODULE_k__ = __webpack_require__(id),
\* the module being cached already.
TopRequireHit(id) ==
    /\ stack = <<>>
    /\ Installed(id)
    /\ raised' = <<>>
    /\ imported' = [imported EXCEPT ![id] = CachedExports(id)]
    /\ Hand(id, CachedExports(id))
    /\ NoteImport(Test, id, CachedExports(id))
    /\ last' = Op("hit", id, CachedExports(id), "", "", "")
    /\ UNCHANGED <<imports, failing, installedModules, heap, nextRef, stack,
                   bindings, execLog, roots, heldDefault, configVars>>

\* The same statement, the module not being cached: its function starts.
TopRequireMiss(id) ==
    /\ stack = <<>>
    /\ ~Installed(id)
    /\ NewModule(id, <<>>)
    /\ raised' = <<>>
    /\ roots' = Append(roots, id)
    /\ last' = Op("load", id, NoRef, "", "", "")
    /\ UNCHANGED <<imports, failing, handed, imported, atImport, heldDefault, configVars>>

\* Object.defineProperty(__webpack_exports__, "__esModule", { value: true });
DefineEsModule ==
    /\ AtStatement("esModule")
    /\ heap' = [heap EXCEPT ![CachedExports(Top.id)] =
                   SetProp(@, Statement.name, Statement.val)]
    /\ stack' = Advance(stack)
    /\ last' = Op("step", Top.id, NoRef, "", "", "")
    /\ UNCHANGED <<imports, failing, installedModules, nextRef, bindings, raised,
                   execLog, roots, handed, imported, atImport, heldDefault, configVars>>

\* A harmony import inside a module function, served from the cache.
ImportHit ==
    /\ AtStatement("import")
    /\ Installed(Statement.id)
    /\ bindings' = [bindings EXCEPT ![Top.id] = Append(@, CachedExports(Statement.id))]
    /\ Hand(Statement.id, CachedExports(Statement.id))
    /\ NoteImport(Top.id, Statement.id, CachedExports(Statement.id))
    /\ stack' = Advance(stack)
    /\ last' = Op("importHit", Statement.id, CachedExports(Statement.id), "", "", "")
    /\ UNCHANGED <<imports, failing, installedModules, heap, nextRef, raised,
                   execLog, roots, imported, heldDefault, configVars>>

\* A harmony import of a module that is not cached: the nested call.
ImportMiss ==
    /\ AtStatement("import")
    /\ ~Installed(Statement.id)
    /\ NewModule(Statement.id, stack)
    /\ last' = Op("step", Top.id, NoRef, "", "", "")
    /\ UNCHANGED <<imports, failing, raised, roots, handed, imported, atImport,
                   heldDefault, configVars>>

\* The module body defines one of its exports on __webpack_exports__.
DefineExport ==
    /\ AtStatement("export")
    /\ heap' = [heap EXCEPT ![CachedExports(Top.id)] =
                   SetProp(@, Statement.name, Statement.val)]
    /\ stack' = Advance(stack)
    /\ last' = Op("step", Top.id, NoRef, "", "", "")
    /\ UNCHANGED <<imports, failing, installedModules, nextRef, bindings, raised,
                   execLog, roots, handed, imported, atImport, heldDefault, configVars>>

\* The module function ran to its end: module.l = true; return module.exports;
Return ==
    /\ Running
    /\ Top.pc > Len(ModuleFunction(Top.id))
    /\ installedModules' = [installedModules EXCEPT ![Top.id].l = TRUE]
    /\ Hand(Top.id, CachedExports(Top.id))
    /\ IF Len(stack) = 1
       THEN /\ stack' = <<>>
            /\ imported' = [imported EXCEPT ![Top.id] = CachedExports(Top.id)]
            /\ NoteImport(Test, Top.id, CachedExports(Top.id))
            /\ last' = Op("loaded", Top.id, CachedExports(Top.id), "", "", "")
            /\ UNCHANGED bindings
       ELSE /\ stack' = Advance(SubSeq(stack, 1, Len(stack) - 1))
            /\ bindings' = [bindings EXCEPT ![stack[Len(stack) - 1].id] =
                               Append(@, CachedExports(Top.id))]
            /\ NoteImport(stack[Len(stack) - 1].id, Top.id, CachedExports(Top.id))
            /\ last' = Op("step", Top.id, NoRef, "", "", "")
            /\ UNCHANGED imported
    /\ UNCHANGED <<imports, failing, heap, nextRef, raised, execLog, roots,
                   heldDefault, configVars>>

\* The module body throws: its require signals ModuleInitializationError.
Throw ==
    /\ AtStatement("throw")
    /\ raised' = <<Top.id>>
    /\ stack' = SubSeq(stack, 1, Len(stack) - 1)
    /\ last' = Op("throw", Top.id, NoRef, "", "", "ModuleInitializationError")
    /\ UNCHANGED <<imports, failing, installedModules, heap, nextRef, bindings,
                   execLog, roots, handed, imported, atImport, heldDefault, configVars>>

\* The error reaches the importing module function, which is abandoned too.
Propagate ==
    /\ stack # <<>>
    /\ raised # <<>>
    /\ raised' = Append(raised, Top.id)
    /\ stack' = SubSeq(stack, 1, Len(stack) - 1)
    /\ last' = Op("throw", Top.id, NoRef, "", "", "ModuleInitializationError")
    /\ UNCHANGED <<imports, failing, installedModules, heap, nextRef, bindings,
                   execLog, roots, handed, imported, atImport, heldDefault, configVars>>

----------------------------------------------------------------------------
(* The test file *)

\* What calling a function value yields.
Apply(f) ==
    IF f = FetchDataFn THEN "[Tom, Mary]"
    ELSE IF f = "stub returns []" THEN "[]"
    ELSE IF f = "stub returns true" THEN "true"
    ELSE Undefined

Callable(f) ==
    f \in {FetchDataFn, DoSomethingFn} \cup StubValues

\* __WEBPACK_IMPORTED_MODULE_1__utils__: the import's variable is the module.
WholeNamespace(ref) ==
    ref

\* Variant: the named import captures the function when the import runs.
NamedPropertyCaptured(ref, name) ==
    IF name = "fetchData" THEN atImport[Test] ELSE GetProp(heap[ref], name)

\* __WEBPACK_IMPORTED_MODULE_1__utils__["fetchData"], evaluated where it is used.
NamedProperty(ref, name) ==
    GetProp(heap[ref], name)

\* Variant: the default import remembers the first value it resolved to.
DefaultPropertyMemo(ref) ==
    IF heldDefault.id # -1 THEN heldDefault.val ELSE GetProp(heap[ref], DefaultKey)

\* __WEBPACK_IMPORTED_MODULE_1__utils_default__["a" /* default */]
DefaultProperty(ref) ==
    GetProp(heap[ref], DefaultKey)

\* Variant: a missing default is read like any other absent property.
MissingDefaultNever(ref) ==
    FALSE

\* The module has no default-marked export.
MissingDefault(ref) ==
    DefaultKey \notin DOMAIN heap[ref]

\* sinon.stub(ModuleToMock, name): the property of the imported module object
\* is replaced by the stub.
Stub(id, name, v) ==
    /\ Idle
    /\ imported[id] # NoRef
    /\ name \in DOMAIN heap[imported[id]] \ {EsModuleKey}
    /\ heap' = [heap EXCEPT ![WholeNamespace(imported[id])] = SetProp(@, name, v)]
    /\ last' = Op("stub", id, imported[id], name, v, "")
    /\ UNCHANGED <<imports, failing, installedModules, nextRef, stack, bindings,
                   raised, execLog, roots, handed, imported, atImport, heldDefault,
                   configVars>>

\* console.log(Utils, 'doSomething') in test/import_whole_module.js
UseWhole(id) ==
    /\ Idle
    /\ imported[id] # NoRef
    /\ last' = Op("useWhole", id, WholeNamespace(imported[id]), "", "", "")
    /\ UNCHANGED <<loaderVars, imported, atImport, heldDefault, configVars>>

\* console.log(fetchData) in test/import_function.js
UseNamed ==
    /\ Idle
    /\ imported[Utils] # NoRef
    /\ last' = Op("useNamed", Utils, NoRef, "fetchData",
                  NamedProperty(imported[Utils], "fetchData"), "")
    /\ UNCHANGED <<loaderVars, imported, atImport, heldDefault, configVars>>

\* console.log(fetchData) in test/import_default_module.js
UseDefault(id) ==
    /\ Idle
    /\ imported[id] # NoRef
    /\ IF MissingDefault(imported[id])
       THEN /\ last' = Op("useDefault", id, NoRef, DefaultKey, "",
                          "MissingDefaultExportError")
            /\ UNCHANGED heldDefault
       ELSE /\ last' = Op("useDefault", id, NoRef, DefaultKey,
                          DefaultProperty(imported[id]), "")
            /\ heldDefault' = [id |-> id, val |-> DefaultProperty(imported[id])]
    /\ UNCHANGED <<loaderVars, imported, atImport, configVars>>

\* Variant: app.js keeps the function its import found.
AppFetchDataAtImport ==
    atImport[App]

\* The function app.js calls where its source says fetchData().
AppFetchData ==
    NamedProperty(bindings[App][1], "fetchData")

\* TestingModule.doSomething() in the test file; doSomething calls fetchData().
\* The operation records the function that ran last and what it yielded.
CallDoSomething ==
    /\ Idle
    /\ imported[App] # NoRef
    /\ Callable(NamedProperty(imported[App], "doSomething"))
    /\ last' = LET f == NamedProperty(imported[App], "doSomething")
               IN  IF f # DoSomethingFn THEN Op("call", App, NoRef, f, Apply(f), "")
                   ELSE IF Callable(AppFetchData)
                        THEN Op("call", App, NoRef, AppFetchData, Apply(AppFetchData), "")
                        ELSE Op("call", App, NoRef, AppFetchData, "", "TypeError")
    /\ UNCHANGED <<loaderVars, imported, atImport, heldDefault, configVars>>

----------------------------------------------------------------------------
(* webpack.config.js *)

EntryList == <<"import_function", "import_default_module", "import_whole_module">>

Seg(s) == [stem |-> s, ext |-> ""]

File(stem, ext) == [stem |-> stem, ext |-> ext]

Dirname == <<Seg("__dirname")>>

\* path.resolve(base, rel): rel's segments applied to base, "." and ".." resolved.
RECURSIVE PathResolve(_, _)
PathResolve(base, rel) ==
    IF rel = <<>> THEN base
    ELSE IF Head(rel) = Seg(".") THEN PathResolve(base, Tail(rel))
    ELSE IF Head(rel) = Seg("..")
         THEN PathResolve(SubSeq(base, 1, Len(base) - 1), Tail(rel))
    ELSE PathResolve(Append(base, Head(rel)), Tail(rel))

\* Variant: the template is an ordinary string, ${module} is not substituted.
EntrySourceFixed(module) ==
    PathResolve(Dirname, <<Seg("."), Seg("test"), File("${module}", ".js")>>)

\* path.resolve(__dirname, `./test/${module}.js`)
EntrySource(module) ==
    PathResolve(Dirname, <<Seg("."), Seg("test"), File(module, ".js")>>)

\* output.path: path.resolve(__dirname, 'dist')
OutputPath ==
    PathResolve(Dirname, <<Seg("dist")>>)

\* output.filename: '[name].bundle.js'
OutputFilename(name) ==
    File(name, ".bundle.js")

\* One call of the reduce callback: accu[module] = ...; return accu;
ReduceStep ==
    /\ ~built
    /\ entryRest # <<>>
    /\ accu' = SetProp(accu, Head(entryRest), EntrySource(Head(entryRest)))
    /\ entryRest' = Tail(entryRest)
    /\ UNCHANGED <<loaderVars, testVars, entryInput, emitted, built>>

\* webpack emits one bundle per key of entry.
Build ==
    /\ ~built
    /\ entryRest = <<>>
    /\ emitted' = [n \in DOMAIN accu |-> Append(OutputPath, OutputFilename(n))]
    /\ built' = TRUE
    /\ UNCHANGED <<loaderVars, testVars, entryInput, entryRest, accu>>

----------------------------------------------------------------------------
(* Specifications *)

Start(n, failures, inputs) ==
    /\ \E extra \in [ModuleIds -> InjectiveSeqs(ModuleIds, n)] :
          /\ \A m \in ModuleIds : Range(extra[m]) \cap Range(BaseImports(m)) = {}
          /\ imports = [m \in ModuleIds |-> BaseImports(m) \o extra[m]]
    /\ failing \in failures
    /\ installedModules = [m \in ModuleIds |-> NoModule]
    /\ heap = [r \in {} |-> EmptyObject]
    /\ nextRef = 1
    /\ stack = <<>>
    /\ bindings = [m \in ModuleIds |-> <<>>]
    /\ raised = <<>>
    /\ execLog = <<>>
    /\ roots = <<>>
    /\ handed = [m \in ModuleIds |-> {}]
    /\ imported = [m \in ModuleIds |-> NoRef]
    /\ atImport = [m \in {App, Test} |-> Undefined]
    /\ heldDefault = [id |-> -1, val |-> Undefined]
    /\ last = Op("init", -1, NoRef, "", "", "")
    /\ entryInput \in inputs
    /\ entryRest = entryInput
    /\ accu = EmptyObject
    /\ emitted = EmptyObject
    /\ built = FALSE

\* The bundle of the README: app.js imports ./utils, nothing throws.
Init ==
    Start(0, {NoFailure}, {<<>>})

Load ==
    \/ \E id \in ModuleIds : TopRequireHit(id)
    \/ \E id \in ModuleIds : TopRequireMiss(id)
    \/ DefineEsModule
    \/ ImportHit
    \/ ImportMiss
    \/ DefineExport
    \/ Return

Mock ==
    \E id \in ModuleIds, name \in {"fetchData", "doSomething", DefaultKey},
       v \in StubValues : Stub(id, name, v)

Next ==
    \/ Load
    \/ Mock
    \/ \E id \in ModuleIds : UseWhole(id)
    \/ UseNamed
    \/ \E id \in ModuleIds : UseDefault(id)
    \/ CallDoSomething

Spec == Init /\ [][Next]_vars

\* Every import graph over the bundle's modules with up to MaxExtraImports
\* further imports per module, and every place a module body may throw.
GraphInit ==
    Start(MaxExtraImports, Failures, {<<>>})

GraphMock ==
    \E id \in ModuleIds, name \in {"fetchData", "doSomething", DefaultKey} :
       Stub(id, name, "stub returns []")

GraphNext ==
    \/ Load
    \/ Throw
    \/ Propagate
    \/ GraphMock

GraphSpec == GraphInit /\ [][GraphNext]_vars

\* webpack.config.js, reduce run over every array of up to MaxEntries names.
ConfigInit ==
    Start(0, {NoFailure}, UNION {[1..k -> Range(EntryList)] : k \in 0..MaxEntries})

ConfigNext ==
    \/ ReduceStep
    \/ Build

ConfigSpec == ConfigInit /\ [][ConfigNext]_vars

----------------------------------------------------------------------------
(* Properties *)

Cached(id) ==
    installedModules[id] # NoModule

ExportsOf(id) ==
    installedModules[id].exports

Count(seq, x) ==
    Cardinality({k \in DOMAIN seq : seq[k] = x})

IsPrefix(s, t) ==
    /\ Len(s) <= Len(t)
    /\ SubSeq(t, 1, Len(s)) = s

OnStack(id) ==
    \E k \in DOMAIN stack : stack[k].id = id

\* The import variables of module functions that hold module id.
Holders(id) ==
    {<<m, k>> \in ModuleIds \X (1..(MaxExtraImports + 1)) :
        k <= Len(bindings[m]) /\ imports[m][k] = id}

\* Depth-first preorder of the import graph from the given roots.
RECURSIVE DfsFrom(_, _), DfsList(_, _)
DfsFrom(seen, id) ==
    IF id \in Range(seen) THEN seen ELSE DfsList(Append(seen, id), imports[id])
DfsList(seen, ids) ==
    IF ids = <<>> THEN seen ELSE DfsList(DfsFrom(seen, Head(ids)), Tail(ids))

RECURSIVE SumOver(_, _)
SumOver(S, f) ==
    IF S = {} THEN 0
    ELSE LET x == CHOOSE y \in S : TRUE IN f[x] + SumOver(S \ {x}, f)

\* Statements still to run: of the frames on the stack, and of the modules
\* no require has reached yet.
Measure ==
    SumOver(DOMAIN stack,
            [k \in DOMAIN stack |-> Len(ModuleFunction(stack[k].id)) + 2 - stack[k].pc])
    + SumOver({m \in ModuleIds : ~Cached(m)},
              [m \in ModuleIds |-> Len(ModuleFunction(m)) + 2])

OneExportsObject ==
    \A id \in ModuleIds :
        /\ ~Cached(id) => handed[id] = {}
        /\ handed[id] \subseteq {ExportsOf(id)}
        /\ imported[id] \in {NoRef, ExportsOf(id)}
        /\ \A h \in Holders(id) : bindings[h[1]][h[2]] = ExportsOf(id)
        /\ \A other \in ModuleIds \ {id} :
              Cached(id) /\ Cached(other) => ExportsOf(id) # ExportsOf(other)

EntryPermanent ==
    \A id \in ModuleIds :
        Cached(id) => /\ installedModules'[id].exports = installedModules[id].exports
                      /\ installedModules'[id].i = id

\* C1: each module id has exactly one Exports Object: every require of it, from
\* the test file or from a module function, first or later, before or after a
\* stub, returns the reference the cache holds, and a cache entry, once
\* created, is never removed or given another object.
C1_SingleExportsObject ==
    []OneExportsObject /\ [][EntryPermanent]_vars

C1_Witness ==
    \E id \in ModuleIds :
        /\ last.op = "hit" /\ last.id = id
        /\ Holders(id) # {}
        /\ \E n \in DOMAIN heap[ExportsOf(id)] : heap[ExportsOf(id)][n] \in StubValues

ExecutedOnce ==
    \A id \in ModuleIds :
        /\ Count(execLog, id) <= 1
        /\ Cached(id) <=> id \in Range(execLog)

DepthFirst ==
    failing = NoFailure =>
        /\ IsPrefix(execLog, DfsList(<<>>, roots))
        /\ stack = <<>> => execLog = DfsList(<<>>, roots)

HitChangesNothing ==
    last'.op \in {"hit", "importHit"} =>
        UNCHANGED <<installedModules, execLog, heap, nextRef>>

\* C2: a module function runs at most once, started by the first require of its
\* id; functions start in depth-first import order; a require served from the
\* cache starts no function and leaves the cache and the order as they were.
C2_ExecutedOnceDepthFirst ==
    []ExecutedOnce /\ []DepthFirst /\ [][HitChangesNothing]_vars

C2_Witness ==
    /\ last.op = "hit"
    /\ failing = NoFailure
    /\ Len(execLog) = 3
    /\ \E m \in ModuleIds : Len(imports[m]) = 2 /\ execLog[1] = m

CyclicImport ==
    /\ \A m \in ModuleIds : \A k \in 1..Len(bindings[m]) :
          /\ bindings[m][k] # NoRef
          /\ bindings[m][k] = ExportsOf(imports[m][k])
    /\ \A a, b \in DOMAIN stack : a # b => stack[a].id # stack[b].id
    /\ nextRef - 1 = Cardinality({m \in ModuleIds : Cached(m)})
    /\ \A m \in ModuleIds : handed[m] \subseteq {ExportsOf(m)}
    /\ failing = NoFailure => raised = <<>>
    /\ stack # <<>> => ENABLED GraphNext

\* C6: a require of a module whose function is still running is answered with
\* that module's cached, still incomplete Exports Object; no module is entered
\* twice, no second object is made, no error is raised, and every step of a
\* load uses up one of finitely many remaining statements.
C6_CyclicImportTerminates ==
    []CyclicImport /\ [][stack' # stack => Measure' < Measure]_vars

C6_Witness ==
    /\ Len(stack) = 2
    /\ \E k \in 1..Len(bindings[Top.id]) :
          /\ imports[Top.id][k] = stack[1].id
          /\ bindings[Top.id][k] = ExportsOf(stack[1].id)
    /\ ~installedModules[stack[1].id].l
    /\ DOMAIN heap[ExportsOf(stack[1].id)] = {EsModuleKey}

Broken(id) ==
    /\ Cached(id)
    /\ ~installedModules[id].l
    /\ ~OnStack(id)

\* C8: when a module function throws, the require signals
\* ModuleInitializationError naming it, the module's record and the partly
\* filled Exports Object stay in the cache, and a later require of it returns
\* that object without running the function again and without an error.
C8_FailedModuleStaysCached ==
    /\ raised # <<>> =>
          /\ raised[1] = failing.id
          /\ \A k \in DOMAIN raised : Cached(raised[k]) /\ ~installedModules[raised[k]].l
    /\ last.op = "throw" =>
          /\ last.err = "ModuleInitializationError"
          /\ last.id = raised[Len(raised)]
    /\ \A id \in ModuleIds : Broken(id) =>
          /\ failing # NoFailure
          /\ Count(execLog, id) = 1
          /\ handed[id] \subseteq {ExportsOf(id)}
    /\ (failing # NoFailure /\ Broken(failing.id)) =>
          DOMAIN heap[ExportsOf(failing.id)] =
              {EsModuleKey} \cup
              {ExportList(failing.id)[k].name : k \in 1..failing.at}
    /\ (last.op = "hit" /\ Broken(last.id)) =>
          /\ last.ref = ExportsOf(last.id)
          /\ last.err = ""
          /\ raised = <<>>

C8_Witness ==
    /\ last.op = "hit"
    /\ last.id = failing.id
    /\ failing.at = 1
    /\ Broken(failing.id)

C4_NamedImportKeepsOriginal ==
    /\ last.op = "useNamed" => last.val = atImport[Test]
    /\ ( /\ last.op = "call"
         /\ GetProp(heap[imported[App]], "doSomething") = DoSomethingFn ) =>
          last.name = atImport[App]

\* C4 amended: a function imported by name is read from the module's Exports
\* Object where it is used, so a use after exports.fetchData was replaced
\* yields the replacement, in the test file and inside app's doSomething.
C4_NamedImportReadsLive ==
    /\ last.op = "useNamed" =>
          last.val = GetProp(heap[ExportsOf(Utils)], "fetchData")
    /\ ( /\ last.op = "call"
         /\ GetProp(heap[imported[App]], "doSomething") = DoSomethingFn ) =>
          last.name = GetProp(heap[ExportsOf(Utils)], "fetchData")

C4_Witness ==
    /\ last.op = "useNamed"
    /\ atImport[Test] = FetchDataFn
    /\ last.val \in StubValues

\* C5: app.js and the test file hold the same cached utils object, and the
\* function doSomething calls is the one that object holds under fetchData
\* at the time of the call, the stub included.
C5_AppCallsTheMock ==
    /\ (imported[Utils] # NoRef /\ bindings[App] # <<>>) =>
          bindings[App][1] = imported[Utils]
    /\ ( /\ last.op = "call"
         /\ imported[Utils] # NoRef
         /\ GetProp(heap[imported[App]], "doSomething") = DoSomethingFn ) =>
          /\ last.name = GetProp(heap[imported[Utils]], "fetchData")
          /\ last.val = Apply(last.name)

C5_Witness ==
    /\ last.op = "call"
    /\ last.name \in StubValues
    /\ GetProp(heap[imported[App]], "doSomething") = DoSomethingFn
    /\ atImport[App] = FetchDataFn

DefaultAtResolution ==
    (last.op = "useDefault" /\ last.err = "") =>
        /\ last.val = GetProp(heap[imported[last.id]], DefaultKey)
        /\ heldDefault = [id |-> last.id, val |-> last.val]

====
